---------------------------- MODULE Spec2Model ----------------------------
(***************************************************************************)
(* A model of the sivasbus client (src/src/lib.rs): the DTO converters,    *)
(* the text extractors and the fetch / post protocol of the five public    *)
(* operations of Client.                                                   *)
(*                                                                         *)
(* Text (a Rust String / &str) is a sequence of one-character strings.     *)
(* A Rust Result is a record: Ok(v) or Err(e); an Option is Some(v) or     *)
(* None.                                                                   *)
(***************************************************************************)
EXTENDS Integers, Sequences, FiniteSets, TLC

VARIABLES
    arg,        \* the argument a pure function is applied to
    ret,        \* what it returned, or NotCalled
    op,         \* per call: the public operation the call runs
    pc,         \* per call: where the call's future stands
    getResp,    \* per call: the server's answer to the call's GET
    postResp,   \* per call: the server's answer to the call's POST
    doc,        \* per call: local `doc`
    token,      \* per call: local `token`
    sent,       \* per call: the form fields of the POST the call issued
    result,     \* per call: what the public operation returned
    nGet,       \* per call: GET requests issued
    nPost,      \* per call: POST requests issued
    helperRet,  \* per call: get_document / post_json calls that returned
    slept,      \* per call: milliseconds spent in tokio::time::sleep
    cookies     \* the reqwest cookie store shared by all calls of a Client

fnVars == <<arg, ret>>
protoVars == <<op, pc, getResp, postResp, doc, token, sent, result, nGet, nPost,
               helperRet, slept, cookies>>
vars == <<arg, ret, op, pc, getResp, postResp, doc, token, sent, result, nGet,
          nPost, helperRet, slept, cookies>>

-----------------------------------------------------------------------------
(* Result and Option *)

Ok(v) == [ok |-> TRUE, val |-> v]
Err(e) == [ok |-> FALSE, err |-> e]
None == [some |-> FALSE]
Some(v) == [some |-> TRUE, val |-> v]
NotCalled == [called |-> FALSE]
Returned(v) == [called |-> TRUE, val |-> v]

-----------------------------------------------------------------------------
(* Text helpers *)

WS == {" ", "\n", "\t"}
Digit == {"0", "1", "2", "3", "4", "5", "6", "7", "8", "9"}

DigitVal(c) ==
    CASE c = "0" -> 0 [] c = "1" -> 1 [] c = "2" -> 2 [] c = "3" -> 3
      [] c = "4" -> 4 [] c = "5" -> 5 [] c = "6" -> 6 [] c = "7" -> 7
      [] c = "8" -> 8 [] c = "9" -> 9

Lower(c) ==
    CASE c = "I" -> "i" [] c = "N" -> "n" [] c = "F" -> "f" [] c = "A" -> "a"
      [] c = "E" -> "e" [] c = "T" -> "t" [] c = "Y" -> "y" [] OTHER -> c

LowerAll(s) == [i \in 1..Len(s) |-> Lower(s[i])]

Slice(s, a, b) == IF a > b THEN <<>> ELSE SubSeq(s, a, b)

RECURSIVE Flatten(_)
Flatten(ss) == IF ss = <<>> THEN <<>> ELSE Head(ss) \o Flatten(Tail(ss))

\* str::trim: both ends stripped of whitespace
Trim(s) ==
    LET keep == {i \in 1..Len(s) : s[i] \notin WS}
    IN  IF keep = {} THEN <<>>
        ELSE LET a == CHOOSE i \in keep : \A j \in keep : i <= j
                 b == CHOOSE i \in keep : \A j \in keep : j <= i
             IN  SubSeq(s, a, b)

\* str::split("/"): the pieces between the separators, at least one piece
SplitSlash(s) ==
    LET cuts == {i \in 1..Len(s) : s[i] = "/"}
        n == Cardinality(cuts)
        \* the k-th cut, with 0 before the text and Len+1 after it
        Cut(k) == IF k = 0 THEN 0
                  ELSE IF k = n + 1 THEN Len(s) + 1
                  ELSE CHOOSE i \in cuts : Cardinality({j \in cuts : j < i}) = k - 1
    IN  [k \in 1..(n + 1) |-> Slice(s, Cut(k - 1) + 1, Cut(k) - 1)]

\* Iterator::last
LastOf(seq) == IF seq = <<>> THEN None ELSE Some(seq[Len(seq)])

-----------------------------------------------------------------------------
(* str::parse::<i32>() *)

I32_MAX == 2147483647
I32_MIN == -I32_MAX - 1

RECURSIVE DigitsValue(_)
DigitsValue(ds) ==
    IF ds = <<>> THEN 0
    ELSE 10 * DigitsValue(SubSeq(ds, 1, Len(ds) - 1)) + DigitVal(ds[Len(ds)])

AllDigits(s) == \A i \in 1..Len(s) : s[i] \in Digit

\* the digit loop of from_str_radix: checked_mul(10), then checked_add of the
\* digit (checked_sub for a negative number)
RECURSIVE AccumulateI32(_, _, _)
AccumulateI32(ds, acc, neg) ==
    IF ds = <<>> THEN Ok(acc)
    ELSE LET d == DigitVal(Head(ds))
         IN  IF ~neg
             THEN IF acc > I32_MAX \div 10 THEN Err("PosOverflow")
                  ELSE IF acc * 10 > I32_MAX - d THEN Err("PosOverflow")
                  ELSE AccumulateI32(Tail(ds), acc * 10 + d, neg)
             ELSE IF acc < -(I32_MAX \div 10) THEN Err("NegOverflow")
                  ELSE IF acc * 10 < I32_MIN + d THEN Err("NegOverflow")
                  ELSE AccumulateI32(Tail(ds), acc * 10 - d, neg)

ParseI32(s) ==
    IF s = <<>> THEN Err("Empty")
    ELSE LET signed == s[1] \in {"+", "-"}
             neg == s[1] = "-"
             ds == IF signed THEN Tail(s) ELSE s
         IN  IF ds = <<>> \/ ~AllDigits(ds) THEN Err("InvalidDigit")
             ELSE AccumulateI32(ds, 0, neg)

-----------------------------------------------------------------------------
(* str::parse::<f64>().  The value of a finite literal is kept as the exact *)
(* decimal mant * 10^exp10 with mant free of trailing zeros (binary         *)
(* rounding is not modelled); inf and nan are values of their own.          *)

S_inf == <<"i", "n", "f">>
S_infinity == <<"i", "n", "f", "i", "n", "i", "t", "y">>
S_nan == <<"n", "a", "n">>

\* the number of leading digits of s
LeadingDigits(s) ==
    LET stops == {i \in 1..Len(s) : s[i] \notin Digit}
    IN  IF stops = {} THEN Len(s)
        ELSE (CHOOSE i \in stops : \A j \in stops : i <= j) - 1

RECURSIVE Normalise(_, _)
Normalise(mant, exp10) ==
    IF mant = 0 THEN [mant |-> 0, exp10 |-> 0]
    ELSE IF mant % 10 = 0 THEN Normalise(mant \div 10, exp10 + 1)
    ELSE [mant |-> mant, exp10 |-> exp10]

Finite(neg, mant, exp10) ==
    LET n == Normalise(mant, exp10)
    IN  [class |-> "finite", neg |-> neg, mant |-> n.mant, exp10 |-> n.exp10]

\* the exponent part: <<>> or e[+-]?digits+
ParseExponent(x) ==
    IF x = <<>> THEN Ok(0)
    ELSE IF Lower(x[1]) # "e" THEN Err("Invalid")
    ELSE LET r == Tail(x)
             signed == r # <<>> /\ r[1] \in {"+", "-"}
             ds == IF signed THEN Tail(r) ELSE r
         IN  IF ds = <<>> \/ ~AllDigits(ds) THEN Err("Invalid")
             ELSE Ok(IF signed /\ r[1] = "-" THEN -DigitsValue(ds) ELSE DigitsValue(ds))

ParseF64(s) ==
    IF s = <<>> THEN Err("Empty")
    ELSE LET signed == s[1] \in {"+", "-"}
             neg == s[1] = "-"
             body == IF signed THEN Tail(s) ELSE s
             low == LowerAll(body)
         IN  IF low = S_inf \/ low = S_infinity THEN Ok([class |-> "inf", neg |-> neg])
             ELSE IF low = S_nan THEN Ok([class |-> "nan", neg |-> neg])
             ELSE LET ni == LeadingDigits(body)
                      int == Slice(body, 1, ni)
                      afterInt == Slice(body, ni + 1, Len(body))
                      dotted == afterInt # <<>> /\ afterInt[1] = "."
                      afterDot == IF dotted THEN Tail(afterInt) ELSE afterInt
                      nf == IF dotted THEN LeadingDigits(afterDot) ELSE 0
                      frac == Slice(afterDot, 1, nf)
                      e == ParseExponent(Slice(afterDot, nf + 1, Len(afterDot)))
                  IN  IF ni + nf = 0 \/ ~e.ok THEN Err("Invalid")
                      ELSE Ok(Finite(neg, DigitsValue(int \o frac), e.val - nf))

-----------------------------------------------------------------------------
(* The DTO conversions *)

\* StationTryFrom with the coordinates parsed before the id
StationTryFromCoordsFirst(dto) ==
    LET seg == LastOf(SplitSlash(dto.path))
        id == ParseI32(seg.val)
        lat == ParseF64(dto.lat)
        long == ParseF64(dto.long)
    IN  IF ~lat.ok THEN Err([variant |-> "Coords", source |-> lat.err])
        ELSE IF ~long.ok THEN Err([variant |-> "Coords", source |-> long.err])
        ELSE IF ~id.ok THEN Err([variant |-> "Id", source |-> id.err])
        ELSE Ok([id |-> id.val,
                 human_name |-> Trim(dto.human_name),
                 coords |-> [lat |-> lat.val, long |-> long.val]])

\* impl TryFrom<StationDto> for Station
StationTryFrom(dto) ==
    LET seg == LastOf(SplitSlash(dto.path))
    IN  IF ~seg.some THEN Err([variant |-> "NoId"])
        ELSE LET id == ParseI32(seg.val)
                 lat == ParseF64(dto.lat)
                 long == ParseF64(dto.long)
             IN  IF ~id.ok THEN Err([variant |-> "Id", source |-> id.err])
                 ELSE IF ~lat.ok THEN Err([variant |-> "Coords", source |-> lat.err])
                 ELSE IF ~long.ok THEN Err([variant |-> "Coords", source |-> long.err])
                 ELSE Ok([id |-> id.val,
                          human_name |-> Trim(dto.human_name),
                          coords |-> [lat |-> lat.val, long |-> long.val]])

\* impl TryFrom<LineBusDto> for LineBus
LineBusTryFrom(dto) ==
    LET lat == ParseF64(dto.lat)
        long == ParseF64(dto.long)
    IN  IF ~lat.ok THEN Err([source |-> lat.err])
        ELSE IF ~long.ok THEN Err([source |-> long.err])
        ELSE Ok([license_plate |-> Trim(dto.license_plate),
                 coords |-> [lat |-> lat.val, long |-> long.val]])

\* impl From<StationBusDto> for StationBus
StationBusFrom(dto) ==
    [license_plate |-> Trim(dto.license_plate),
     arrive_time |-> [secs |-> dto.arrive_time_secs, nanos |-> 0]]

\* extract_stations: `for dto in dtos { results.push(dto.try_into()?); }`
RECURSIVE ConvertStations(_, _)
ConvertStations(dtos, results) ==
    IF dtos = <<>> THEN Ok(results)
    ELSE LET r == StationTryFrom(Head(dtos))
         IN  IF ~r.ok THEN Err([kind |-> "StationError", source |-> r.err])
             ELSE ConvertStations(Tail(dtos), Append(results, r.val))

\* ConvertLineBuses with a failing DTO skipped instead of ending the loop
RECURSIVE ConvertLineBusesSkipping(_, _)
ConvertLineBusesSkipping(dtos, results) ==
    IF dtos = <<>> THEN Ok(results)
    ELSE LET r == LineBusTryFrom(Head(dtos))
         IN  IF ~r.ok THEN ConvertLineBusesSkipping(Tail(dtos), results)
             ELSE ConvertLineBusesSkipping(Tail(dtos), Append(results, r.val))

\* get_line_buses: `for dto in dtos { results.push(dto.try_into()?); }`
RECURSIVE ConvertLineBuses(_, _)
ConvertLineBuses(dtos, results) ==
    IF dtos = <<>> THEN Ok(results)
    ELSE LET r == LineBusTryFrom(Head(dtos))
         IN  IF ~r.ok THEN Err([kind |-> "LineBusError", source |-> r.err])
             ELSE ConvertLineBuses(Tail(dtos), Append(results, r.val))

\* get_station_buses: `json.into_iter().map(|dto| dto.into()).collect()`
ConvertStationBuses(dtos) == [i \in 1..Len(dtos) |-> StationBusFrom(dtos[i])]

-----------------------------------------------------------------------------
(* JSON.  A JSON object literal is one lexeme of a text: a string such as   *)
(* "{A}" that stands for the literal's characters (none of them a bracket,  *)
(* a newline or white space) and that JsonObjects maps to the object.  A    *)
(* JSON value is tagged with its type.                                       *)

JStr(chars) == [t |-> "str", v |-> chars]
JNum(n) == [t |-> "num", v |-> n]

P_42 == <<"/", "A", "/", "4", "2">>
P_7 == <<"/", "A", "/", "7">>
P_bad == <<"/", "A", "/">>
N_39_7 == <<"3", "9", ".", "7">>
N_37_0 == <<"3", "7", ".", "0">>
N_bad == <<"x">>
T_stop == <<" ", "T", "e", "s", "t", " ", "S", "t", "o", "p", " ">>
T_plate == <<"5", "8", " ", "A", "B", " ">>

JsonObjects ==
    [ S42    |-> [linko |-> JStr(P_42), durakAd |-> JStr(T_stop),
                  durakLat |-> JStr(N_39_7), durakLng |-> JStr(N_37_0)],
      S7     |-> [linko |-> JStr(P_7), durakAd |-> JStr(<<"B">>),
                  durakLat |-> JStr(N_37_0), durakLng |-> JStr(N_39_7),
                  extra |-> JNum(1)],
      SbadId |-> [linko |-> JStr(P_bad), durakAd |-> JStr(<<"C">>),
                  durakLat |-> JStr(N_39_7), durakLng |-> JStr(N_37_0)],
      SbadLat |-> [linko |-> JStr(P_7), durakAd |-> JStr(<<"D">>),
                  durakLat |-> JStr(N_bad), durakLng |-> JStr(N_37_0)],
      SnumLat |-> [linko |-> JStr(P_7), durakAd |-> JStr(<<"E">>),
                  durakLat |-> JNum(39), durakLng |-> JStr(N_37_0)],
      L1     |-> [aracPlaka |-> JStr(T_plate), mevcutlat |-> JStr(N_39_7),
                  mevcutlng |-> JStr(N_37_0)],
      L2     |-> [aracPlaka |-> JStr(<<"Z">>), mevcutlat |-> JStr(N_37_0),
                  mevcutlng |-> JStr(N_39_7)],
      LbadLat |-> [aracPlaka |-> JStr(<<"Y">>), mevcutlat |-> JStr(<<>>),
                  mevcutlng |-> JStr(N_39_7)],
      LbadLng |-> [aracPlaka |-> JStr(<<"X">>), mevcutlat |-> JStr(N_39_7),
                  mevcutlng |-> JStr(N_bad)],
      LnoLat |-> [aracPlaka |-> JStr(<<"W">>), mevcutlng |-> JStr(N_39_7)],
      B1     |-> [plaka |-> JStr(T_plate), sure |-> JNum(90)],
      B2     |-> [plaka |-> JStr(<<"Z">>), sure |-> JNum(0)],
      Bneg   |-> [plaka |-> JStr(<<"V">>), sure |-> JNum(-1)] ]

\* #[derive(Deserialize)] struct StationDto: every field a JSON string;
\* members the struct does not name are ignored
DecodeStationDto(o) ==
    IF /\ {"linko", "durakAd", "durakLat", "durakLng"} \subseteq DOMAIN o
       /\ \A k \in {"linko", "durakAd", "durakLat", "durakLng"} : o[k].t = "str"
    THEN Ok([path |-> o.linko.v, human_name |-> o.durakAd.v,
             lat |-> o.durakLat.v, long |-> o.durakLng.v])
    ELSE Err("shape")

\* #[derive(Deserialize)] struct LineBusDto
DecodeLineBusDto(o) ==
    IF /\ {"aracPlaka", "mevcutlat", "mevcutlng"} \subseteq DOMAIN o
       /\ \A k \in {"aracPlaka", "mevcutlat", "mevcutlng"} : o[k].t = "str"
    THEN Ok([license_plate |-> o.aracPlaka.v, lat |-> o.mevcutlat.v,
             long |-> o.mevcutlng.v])
    ELSE Err("shape")

\* #[derive(Deserialize)] struct StationBusDto: `sure` is a u64
DecodeStationBusDto(o) ==
    IF /\ {"plaka", "sure"} \subseteq DOMAIN o
       /\ o.plaka.t = "str"
       /\ o.sure.t = "num" /\ o.sure.v >= 0
    THEN Ok([license_plate |-> o.plaka.v, arrive_time_secs |-> o.sure.v])
    ELSE Err("shape")

NotWS(c) == c \notin WS

\* the struct a JSON object is decoded as
DecodeObject(shape, o) ==
    CASE shape = "StationDto" -> DecodeStationDto(o)
      [] shape = "LineBusDto" -> DecodeLineBusDto(o)
      [] shape = "StationBusDto" -> DecodeStationBusDto(o)

\* Deserialize for Vec<T>: the text must be one JSON array of objects of T's
\* shape; white space between lexemes is insignificant
DecodeVec(text, shape) ==
    LET toks == SelectSeq(text, NotWS)
        n == Len(toks)
    IN  IF n < 2 \/ toks[1] # "[" \/ toks[n] # "]" THEN Err("syntax")
        ELSE LET inner == Slice(toks, 2, n - 1)
                 m == Len(inner)
             IN  IF m = 0 THEN Ok(<<>>)
                 ELSE IF \/ m % 2 = 0
                         \/ \E i \in 1..m :
                              IF i % 2 = 1 THEN inner[i] \notin DOMAIN JsonObjects
                                           ELSE inner[i] # ","
                 THEN Err("syntax")
                 ELSE LET items == [i \in 1..((m + 1) \div 2) |->
                                        DecodeObject(shape, JsonObjects[inner[2 * i - 1]])]
                      IN  IF \E i \in 1..Len(items) : ~items[i].ok THEN Err("shape")
                          ELSE Ok([i \in 1..Len(items) |-> items[i].val])

-----------------------------------------------------------------------------
(* The regex extractors.  \s is white space, \d a digit, `.` any character  *)
(* but a newline; a match is the leftmost one and its repetitions are       *)
(* greedy.                                                                   *)

S_var == <<"v", "a", "r">>
S_duraks == <<"d", "u", "r", "a", "k", "s">>
S_hgID == <<"h", "g", "I", "D">>

LitAt(text, i, lit) ==
    /\ i + Len(lit) - 1 <= Len(text)
    /\ SubSeq(text, i, i + Len(lit) - 1) = lit

\* the first index >= i that holds no white space (Len + 1 when none does)
SkipWS(text, i) ==
    LET rest == {j \in i..Len(text) : text[j] \notin WS}
    IN  IF rest = {} THEN Len(text) + 1
        ELSE CHOOSE j \in rest : \A k \in rest : j <= k

\* the match at the least index that has one; tries[i] is the match tried at i
Leftmost(tries) ==
    LET hits == {i \in 1..Len(tries) : tries[i].some}
    IN  IF hits = {} THEN None
        ELSE tries[CHOOSE i \in hits : \A j \in hits : i <= j]

\* hgID\s*:\s*(\d+) tried at index i
LineIdAt(text, i) ==
    IF ~LitAt(text, i, S_hgID) THEN None
    ELSE LET c == SkipWS(text, i + 4)
         IN  IF ~LitAt(text, c, <<":">>) THEN None
             ELSE LET d == SkipWS(text, c + 1)
                      n == LeadingDigits(Slice(text, d, Len(text)))
                  IN  IF n = 0 THEN None ELSE Some(SubSeq(text, d, d + n - 1))

\* fn extract_line_id
ExtractLineId(text) == Leftmost([i \in 1..Len(text) |-> LineIdAt(text, i)])

\* var\s+duraks\s*=\s*(\[.*\]) tried at index i
StationJsonAt(text, i) ==
    IF ~LitAt(text, i, S_var) THEN None
    ELSE LET d == SkipWS(text, i + 3)
         IN  IF d = i + 3 \/ ~LitAt(text, d, S_duraks) THEN None
             ELSE LET e == SkipWS(text, d + 6)
                  IN  IF ~LitAt(text, e, <<"=">>) THEN None
                      ELSE LET b == SkipWS(text, e + 1)
                           IN  IF ~LitAt(text, b, <<"[">>) THEN None
                               ELSE LET nls == {k \in b..Len(text) : text[k] = "\n"}
                                        eol == IF nls = {} THEN Len(text) + 1
                                               ELSE CHOOSE k \in nls : \A j \in nls : k <= j
                                        closers == {k \in (b + 1)..(eol - 1) : text[k] = "]"}
                                    IN  IF closers = {} THEN None
                                        ELSE Some(SubSeq(text, b,
                                               CHOOSE k \in closers : \A j \in closers : j <= k))

\* fn extract_station_json
ExtractStationJson(text) == Leftmost([i \in 1..Len(text) |-> StationJsonAt(text, i)])

\* fn extract_stations
ExtractStations(d) ==
    LET json == ExtractStationJson(d.script)
    IN  IF ~json.some THEN Err([kind |-> "NoStations"])
        ELSE LET dtos == DecodeVec(json.val, "StationDto")
             IN  IF ~dtos.ok THEN Err([kind |-> "Json", source |-> dtos.err])
                 ELSE ConvertStations(dtos.val, <<>>)

-----------------------------------------------------------------------------
(* The HTML extractors.  Html::parse_document is not modelled: a document   *)
(* is the elements the selectors can match, in document order, and the text *)
(* the regexes read.  An element is [tag, attrs, texts]: attrs maps the     *)
(* attributes it has to their values, texts are its descendant text nodes.  *)

S_hat == <<"/", "h", "a", "t", "/">>
TokenField == "__RequestVerificationToken"

\* input[name="__RequestVerificationToken"]
IsTokenInput(e) ==
    e.tag = "input" /\ "name" \in DOMAIN e.attrs /\ e.attrs.name = TokenField

\* a[href^="/hat/"]
IsLineAnchor(e) ==
    e.tag = "a" /\ "href" \in DOMAIN e.attrs /\ LitAt(e.attrs.href, 1, S_hat)

\* fn extract_token
ExtractToken(d) ==
    LET found == SelectSeq(d.elems, IsTokenInput)
    IN  IF found = <<>> THEN None
        ELSE IF "value" \notin DOMAIN found[1].attrs THEN None
        ELSE Some(found[1].attrs.value)

\* LineOfAnchor with the name left untrimmed
LineOfAnchorUntrimmed(e) ==
    IF e.texts = <<>> THEN None
    ELSE Some([id |-> LastOf(SplitSlash(e.attrs.href)).val, human_name |-> e.texts[1]])

\* the closure of extract_lines' filter_map
LineOfAnchor(e) ==
    LET id == LastOf(SplitSlash(e.attrs.href))
    IN  IF "href" \notin DOMAIN e.attrs \/ ~id.some THEN None
        ELSE IF e.texts = <<>> THEN None
        ELSE Some([id |-> id.val, human_name |-> Trim(e.texts[1])])

RECURSIVE FilterMapLines(_)
FilterMapLines(es) ==
    IF es = <<>> THEN <<>>
    ELSE LET l == LineOfAnchor(Head(es))
         IN  IF l.some THEN <<l.val>> \o FilterMapLines(Tail(es))
             ELSE FilterMapLines(Tail(es))

\* fn extract_lines
ExtractLines(d) == FilterMapLines(SelectSeq(d.elems, IsLineAnchor))

-----------------------------------------------------------------------------
(* Bounds and input sets *)

NCalls == 2
MaxSegs == 2
MaxNumPieces == 2
MaxDtos == 3
MaxPieces == 5
MaxElems == 3

Calls == 1..NCalls

SeqsUpTo(S, n) == UNION {[1..k -> S] : k \in 0..n}

RECURSIVE Join(_, _)
Join(ss, sep) ==
    IF ss = <<>> THEN <<>>
    ELSE IF Len(ss) = 1 THEN ss[1]
    ELSE ss[1] \o sep \o Join(Tail(ss), sep)

SegPool == {<<>>, <<"4", "2">>, <<"A">>, <<"-", "7">>, <<"4", "x">>,
            <<"2", "1", "4", "7", "4", "8", "3", "6", "4", "8">>}
Paths == {Join(ss, <<"/">>) : ss \in SeqsUpTo(SegPool, MaxSegs)}

NumPieces == {<<"3">>, <<".">>, <<"-">>, <<"x">>}
NumExtras == {N_39_7, N_37_0, S_nan, <<"1", "e", "5">>, <<" ", "1">>, <<"0">>, <<"I", "n", "f">>}
NumStrs == {Flatten(ps) : ps \in SeqsUpTo(NumPieces, MaxNumPieces)} \cup NumExtras
NarrowNums == {N_39_7, N_bad}

StationDtos ==
    {[path |-> p, human_name |-> T_stop, lat |-> c[1], long |-> c[2]] :
        p \in Paths, c \in (NumStrs \X NarrowNums) \cup (NarrowNums \X NumStrs)}

StationNames == {"S42", "S7", "SbadId", "SbadLat"}
LineBusNames == {"L1", "L2", "LbadLat", "LbadLng"}

\* a script that assigns the array of the named objects to duraks
ScriptOf(names) ==
    S_var \o <<" ">> \o S_duraks \o <<" ", "=", " ", "[">> \o Join([i \in 1..Len(names) |-> <<names[i]>>], <<",", " ">>) \o <<"]", ";", "\n">>

ConvInputs ==
    {[fn |-> "Station::try_from", dto |-> d] : d \in StationDtos}
    \cup {[fn |-> "extract_stations", names |-> ns, doc |-> [elems |-> <<>>, script |-> ScriptOf(ns)]] :
            ns \in SeqsUpTo(StationNames, MaxDtos)}
    \cup {[fn |-> "get_line_buses", names |-> ns,
           dtos |-> [i \in 1..Len(ns) |-> DecodeLineBusDto(JsonObjects[ns[i]]).val]] :
            ns \in SeqsUpTo(LineBusNames, MaxDtos)}

-----------------------------------------------------------------------------
(* The protocol's initial state (no call started) *)

ProtoInit ==
    /\ op = [c \in Calls |-> [name |-> "none", line |-> <<>>, station |-> 0]]
    /\ pc = [c \in Calls |-> "idle"]
    /\ getResp = [c \in Calls |-> None]
    /\ postResp = [c \in Calls |-> None]
    /\ doc = [c \in Calls |-> None]
    /\ token = [c \in Calls |-> None]
    /\ sent = [c \in Calls |-> None]
    /\ result = [c \in Calls |-> NotCalled]
    /\ nGet = [c \in Calls |-> 0]
    /\ nPost = [c \in Calls |-> 0]
    /\ helperRet = [c \in Calls |-> 0]
    /\ slept = [c \in Calls |-> 0]
    /\ cookies = None

-----------------------------------------------------------------------------
(* SpecConv: the converters applied to every input of ConvInputs *)

InitConv == arg \in ConvInputs /\ ret = NotCalled /\ ProtoInit

CallStationTryFrom ==
    /\ ~ret.called /\ arg.fn = "Station::try_from"
    /\ ret' = Returned(StationTryFrom(arg.dto))
    /\ UNCHANGED <<arg, protoVars>>

CallExtractStations ==
    /\ ~ret.called /\ arg.fn = "extract_stations"
    /\ ret' = Returned(ExtractStations(arg.doc))
    /\ UNCHANGED <<arg, protoVars>>

CallConvertLineBuses ==
    /\ ~ret.called /\ arg.fn = "get_line_buses"
    /\ ret' = Returned(ConvertLineBuses(arg.dtos, <<>>))
    /\ UNCHANGED <<arg, protoVars>>

NextConv == CallStationTryFrom \/ CallExtractStations \/ CallConvertLineBuses

SpecConv == InitConv /\ [][NextConv]_vars

-----------------------------------------------------------------------------
(* What the claims call numeric, stated without the parsers *)

\* the text after the last "/" of a path (the whole path when it has none)
TrailingSegment(path) ==
    LET cuts == {i \in 1..Len(path) : path[i] = "/"}
        last == IF cuts = {} THEN 0 ELSE CHOOSE i \in cuts : \A j \in cuts : j <= i
    IN  Slice(path, last + 1, Len(path))

Unsigned(s) == IF s # <<>> /\ s[1] \in {"+", "-"} THEN Tail(s) ELSE s

\* an optionally signed decimal integer
IsIntNumeral(s) == Unsigned(s) # <<>> /\ \A i \in 1..Len(Unsigned(s)) : Unsigned(s)[i] \in Digit

\* an integer numeral of at most nine digits: inside the i32 range
IsSmallIntNumeral(s) == IsIntNumeral(s) /\ Len(Unsigned(s)) <= 9

IsMantissa(m) ==
    /\ \A i \in 1..Len(m) : m[i] \in Digit \cup {"."}
    /\ Cardinality({i \in 1..Len(m) : m[i] = "."}) <= 1
    /\ \E i \in 1..Len(m) : m[i] \in Digit

IsExponent(x) == x # <<>> /\ x[1] \in {"e", "E"} /\ IsIntNumeral(Tail(x))

\* what Rust reads as an f64: [sign] (inf | infinity | nan | mantissa [exponent])
IsFloatLiteral(s) ==
    LET b == Unsigned(s)
    IN  \/ LowerAll(b) \in {S_inf, S_infinity, S_nan}
        \/ \E k \in 1..Len(b) :
              /\ IsMantissa(SubSeq(b, 1, k))
              /\ k = Len(b) \/ IsExponent(SubSeq(b, k + 1, Len(b)))

-----------------------------------------------------------------------------
(* Claims checked under SpecConv *)

StationCase == arg.fn = "Station::try_from" /\ ret.called
BadStationId == ~IsIntNumeral(TrailingSegment(arg.dto.path))
BadStationCoords == ~IsFloatLiteral(arg.dto.lat) \/ ~IsFloatLiteral(arg.dto.long)

\* C8: converting a Station DTO whose path has no trailing numeric segment
\* fails with the Id error, whatever its coordinates are (the id is checked
\* first); one whose trailing segment is a number in range and whose latitude
\* or longitude is not a float literal fails with the Coords error; no such
\* DTO yields a Station.
C8_StationFieldErrors ==
    StationCase =>
        /\ BadStationId => ~ret.val.ok /\ ret.val.err.variant = "Id"
        /\ BadStationCoords => ~ret.val.ok
        /\ BadStationCoords /\ IsSmallIntNumeral(TrailingSegment(arg.dto.path))
              => ~ret.val.ok /\ ret.val.err.variant = "Coords"

\* a DTO with a bad path and a bad latitude was converted, and failed on its id
C8_Witness ==
    /\ StationCase /\ BadStationId /\ ~IsFloatLiteral(arg.dto.lat)
    /\ ~ret.val.ok /\ ret.val.err.variant = "Id"

\* the results of converting each DTO of a batch on its own
EachConverted ==
    IF arg.fn = "extract_stations"
    THEN [i \in 1..Len(arg.names) |->
            StationTryFrom(DecodeStationDto(JsonObjects[arg.names[i]]).val)]
    ELSE [i \in 1..Len(arg.dtos) |-> LineBusTryFrom(arg.dtos[i])]

BatchCase == arg.fn \in {"extract_stations", "get_line_buses"} /\ ret.called
BatchKind == IF arg.fn = "extract_stations" THEN "StationError" ELSE "LineBusError"
Failing == {i \in 1..Len(EachConverted) : ~EachConverted[i].ok}

\* C5: a batch conversion (extract_stations, the loop of get_line_buses)
\* returns the error of the first DTO, in list order, that fails conversion,
\* and then no record at all; when every DTO converts it returns one record
\* per DTO, in the DTOs' order.
C5_BatchAllOrNothing ==
    BatchCase =>
        IF Failing = {}
        THEN /\ ret.val.ok
             /\ Len(ret.val.val) = Len(EachConverted)
             /\ \A i \in 1..Len(ret.val.val) : ret.val.val[i] = EachConverted[i].val
        ELSE LET first == CHOOSE i \in Failing : \A j \in Failing : i <= j
             IN  /\ ~ret.val.ok
                 /\ DOMAIN ret.val = {"ok", "err"}
                 /\ ret.val.err = [kind |-> BatchKind, source |-> EachConverted[first].err]

\* a batch whose second DTO fails, after one that converted and before one
\* that would have failed differently, returned the second DTO's error
C5_Witness ==
    /\ BatchCase /\ Cardinality(Failing) >= 2
    /\ 1 \notin Failing /\ 2 \in Failing
    /\ \E j \in Failing : EachConverted[j].err # EachConverted[2].err
    /\ ~ret.val.ok /\ ret.val.err.source = EachConverted[2].err

-----------------------------------------------------------------------------
(* SpecJson: extract_station_json applied to every script of at most        *)
(* MaxPieces pieces                                                          *)

S_assign == S_var \o <<" ">> \o S_duraks \o <<" ", "=", " ">>
ScriptPieces == {S_assign, <<"[">>, <<"]">>, <<"S42">>, <<"\n">>, <<";">>, <<",">>}
Scripts == {Flatten(ps) : ps \in SeqsUpTo(ScriptPieces, MaxPieces)}

InitJson ==
    /\ arg \in {[fn |-> "extract_station_json", text |-> t] : t \in Scripts}
    /\ ret = NotCalled /\ ProtoInit

CallExtractStationJson ==
    /\ ~ret.called /\ arg.fn = "extract_station_json"
    /\ ret' = Returned(ExtractStationJson(arg.text))
    /\ UNCHANGED <<arg, protoVars>>

NextJson == CallExtractStationJson

SpecJson == InitJson /\ [][NextJson]_vars

\* index b opens an array assigned to duraks: `var`, white space, `duraks`,
\* `=` (white space allowed around it) stand right before it
AssignsArrayAt(text, b) ==
    /\ b \in 1..Len(text) /\ text[b] = "["
    /\ \E i \in 1..b :
          /\ LitAt(text, i, S_var)
          /\ i + 3 < b /\ text[i + 3] \in WS
          /\ SelectSeq(SubSeq(text, i + 3, b - 1), NotWS) = S_duraks \o <<"=">>

Count(text, a, b, c) == Cardinality({k \in a..b : text[k] = c})

\* the indices that close the bracket opened at b
ClosesOf(text, b) ==
    {k \in (b + 1)..Len(text) : Count(text, b, k, "[") = Count(text, b, k, "]")}

\* the embedded assignments: an opening index with a bracket that closes it
Assignments(text) ==
    {b \in 1..Len(text) : AssignsArrayAt(text, b) /\ ClosesOf(text, b) # {}}

\* the array literal of the first assignment, from its bracket to the
\* matching one
AssignedArray(text) ==
    LET as == Assignments(text)
        b == CHOOSE i \in as : \A j \in as : i <= j
        cl == ClosesOf(text, b)
    IN  SubSeq(text, b, CHOOSE k \in cl : \A j \in cl : k <= j)

\* C7 (as claimed): for a text with an embedded `duraks = [...]` assignment
\* extract_station_json returns exactly the array literal of that
\* assignment, whatever precedes or follows it (so it returns None only when
\* the text has no such assignment).
C7_ReturnsAssignedArray ==
    (arg.fn = "extract_station_json" /\ ret.called) =>
        (Assignments(arg.text) # {} => ret.val = Some(AssignedArray(arg.text)))

-----------------------------------------------------------------------------
(* SpecLines: extract_lines applied to every document of at most MaxElems   *)
(* elements                                                                  *)

H_12 == S_hat \o <<"1", "2">>
H_7 == S_hat \o <<"7">>
H_nested == S_hat \o <<"x", "/", "5">>
H_other == <<"/", "d", "/", "3">>

ElemPool ==
    { [tag |-> "a", attrs |-> [href |-> H_12], texts |-> <<<<" ", "L", "1", "2", "\n">>>>],
      [tag |-> "a", attrs |-> [href |-> H_7], texts |-> <<<<"S">>>>],
      [tag |-> "a", attrs |-> [id |-> <<"n">>], texts |-> <<<<"N">>>>],
      [tag |-> "a", attrs |-> [href |-> H_other], texts |-> <<<<"D">>>>],
      [tag |-> "a", attrs |-> [href |-> H_nested], texts |-> <<>>],
      [tag |-> "a", attrs |-> [href |-> H_nested], texts |-> <<<<"L", " ">>, <<"5">>>>],
      [tag |-> "a", attrs |-> [href |-> S_hat], texts |-> <<<<" ">>, <<"E">>>>],
      [tag |-> "input", attrs |-> [name |-> TokenField, value |-> "tokA"], texts |-> <<>>] }

InitLines ==
    /\ arg \in {[fn |-> "extract_lines", doc |-> [elems |-> es, script |-> <<>>]] :
                  es \in SeqsUpTo(ElemPool, MaxElems)}
    /\ ret = NotCalled /\ ProtoInit

CallExtractLines ==
    /\ ~ret.called /\ arg.fn = "extract_lines"
    /\ ret' = Returned(ExtractLines(arg.doc))
    /\ UNCHANGED <<arg, protoVars>>

NextLines == CallExtractLines

SpecLines == InitLines /\ [][NextLines]_vars

LinesCase == arg.fn = "extract_lines" /\ ret.called

HasLineHref(e) ==
    e.tag = "a" /\ "href" \in DOMAIN e.attrs
    /\ Len(e.attrs.href) >= 5 /\ SubSeq(e.attrs.href, 1, 5) = S_hat

\* the anchors the claim counts, with the whole text content as the name
ClaimedAnchor(e) == HasLineHref(e) /\ Flatten(e.texts) # <<>>
ClaimedLines(es) ==
    LET as == SelectSeq(es, ClaimedAnchor)
    IN  [i \in 1..Len(as) |-> [id |-> TrailingSegment(as[i].attrs.href),
                               human_name |-> Trim(Flatten(as[i].texts))]]

\* C9 (as claimed): extract_lines returns one Line per anchor whose href
\* begins with "/hat/" and that has text content, in document order, with
\* id = the final path segment of the href and human_name = the anchor's
\* trimmed text.
C9_NameIsAnchorText == LinesCase => ret.val = ClaimedLines(arg.doc.elems)

\* the anchors the code keeps, with the first text node as the name
KeptAnchor(e) == HasLineHref(e) /\ e.texts # <<>>
KeptLines(es) ==
    LET as == SelectSeq(es, KeptAnchor)
    IN  [i \in 1..Len(as) |-> [id |-> TrailingSegment(as[i].attrs.href),
                               human_name |-> Trim(as[i].texts[1])]]

\* C9 (amended): extract_lines returns one Line per anchor whose href begins
\* with "/hat/" and that has a text node, in document order, with id = the
\* final path segment of the href and human_name = the anchor's FIRST text
\* node, trimmed; every other anchor is skipped and the extraction never
\* fails.
C9_NameIsFirstTextNode == LinesCase => ret.val = KeptLines(arg.doc.elems)

\* two valid anchors around one without href gave exactly the two lines, in
\* anchor order, the first one's name trimmed
C9_Witness ==
    /\ LinesCase /\ Len(arg.doc.elems) = 3
    /\ "href" \notin DOMAIN arg.doc.elems[2].attrs
    /\ ret.val = << [id |-> <<"1", "2">>, human_name |-> <<"L", "1", "2">>],
                [id |-> <<"7">>, human_name |-> <<"S">>] >>

-----------------------------------------------------------------------------
(* The fetch / post protocol.  A call is one invocation of a public         *)
(* operation on the shared Client; its future advances one await at a time. *)
(* The server is the environment: it answers a request with a transport     *)
(* failure or with a status and a body of its choosing.                     *)

DELAY_MS == 200

OpNames == {"get_lines", "get_all_stations", "get_stations", "get_line_buses",
            "get_station_buses"}
BusOps == {"get_line_buses", "get_station_buses"}

LineArgs == {<<"1", "2">>}
StationArgs == {10}

\* the invocations: an operation with its argument
Invocations(names) ==
    {[name |-> n, line |-> <<>>, station |-> 0] :
        n \in names \cap {"get_lines", "get_all_stations"}}
    \cup {[name |-> n, line |-> l, station |-> 0] :
        n \in names \cap {"get_stations", "get_line_buses"}, l \in LineArgs}
    \cup {[name |-> n, line |-> <<>>, station |-> st] :
        n \in names \cap {"get_station_buses"}, st \in StationArgs}

DigitChar(d) ==
    CASE d = 0 -> "0" [] d = 1 -> "1" [] d = 2 -> "2" [] d = 3 -> "3" [] d = 4 -> "4"
      [] d = 5 -> "5" [] d = 6 -> "6" [] d = 7 -> "7" [] d = 8 -> "8" [] d = 9 -> "9"

RECURSIVE NatToString(_)
NatToString(n) ==
    IF n < 10 THEN <<DigitChar(n)>> ELSE NatToString(n \div 10) \o <<DigitChar(n % 10)>>

\* i32::to_string (I32_MIN itself is not among the arguments modelled)
I32ToString(n) == IF n < 0 THEN <<"-">> \o NatToString(-n) ELSE NatToString(n)

S_root == <<"/">>
S_map == <<"/", "A", "k", "i", "l", "l", "i", "-", "D", "u", "r", "a", "k", "l", "a", "r", "-", "H", "a", "r", "i", "t", "a">>
S_durak == <<"/", "A", "k", "i", "l", "l", "i", "-", "D", "u", "r", "a", "k", "/">>
S_aractekrar == <<"/", "a", "r", "a", "c", "t", "e", "k", "r", "a", "r">>
S_durakTekrar == <<"/", "d", "u", "r", "a", "k", "T", "e", "k", "r", "a", "r">>

\* the path each operation hands to get_document
GetPath(o) ==
    CASE o.name = "get_lines" -> S_root
      [] o.name = "get_all_stations" -> S_map
      [] o.name = "get_stations" -> S_hat \o o.line
      [] o.name = "get_line_buses" -> S_hat \o o.line
      [] o.name = "get_station_buses" -> S_durak \o I32ToString(o.station)

\* `?` on a reqwest::Error inside a public operation: From<reqwest::Error>
RequestError(cause) == [kind |-> "Request", source |-> cause]

\* reqwest's Response::json: the body decoded as the caller's Vec<T>
ResponseJson(name, body) ==
    IF name = "get_line_buses" THEN DecodeVec(body, "LineBusDto")
    ELSE DecodeVec(body, "StationBusDto")

\* `extract_token(&doc).ok_or(Error::NoToken)?` with the token defaulted
RequireTokenOrEmpty(d) ==
    LET t == ExtractToken(d) IN Ok(IF t.some THEN t.val ELSE "")

\* `extract_token(&doc).ok_or(Error::NoToken)?`
RequireToken(d) ==
    LET t == ExtractToken(d)
    IN  IF ~t.some THEN Err([kind |-> "NoToken"]) ELSE Ok(t.val)

\* `extract_line_id(&doc).ok_or(Error::NoLineId)?`
RequireLineId(d) ==
    LET id == ExtractLineId(d.script)
    IN  IF ~id.some THEN Err([kind |-> "NoLineId"]) ELSE Ok(id.val)

\* the form fields an operation hands to post_json, or the error it returns
\* before reaching post_json
PostParams(o, d) ==
    LET t == RequireToken(d)
    IN  IF ~t.ok THEN t
        ELSE IF o.name = "get_line_buses"
        THEN LET id == RequireLineId(d)
             IN  IF ~id.ok THEN id
                 ELSE Ok([path |-> S_aractekrar,
                          form |-> << <<"hgID", id.val>>, <<TokenField, t.val>> >>])
        ELSE Ok([path |-> S_durakTekrar,
                 form |-> << <<"drkID", I32ToString(o.station)>>, <<TokenField, t.val>> >>])

\* a public operation retrying from its fetch instead of returning the error
RetryOnError(c, e) ==
    /\ pc' = [pc EXCEPT ![c] = "get_send"]
    /\ UNCHANGED result

\* a public operation returns Err(e)
ReturnErr(c, e) ==
    /\ pc' = [pc EXCEPT ![c] = "done"]
    /\ result' = [result EXCEPT ![c] = Returned(Err(e))]

\* a public operation returns Ok(v)
ReturnOk(c, v) ==
    /\ pc' = [pc EXCEPT ![c] = "done"]
    /\ result' = [result EXCEPT ![c] = Returned(Ok(v))]

\* the token a call's POST is built from, taken from the shared cookie store
SharedToken(c) == IF cookies.some THEN cookies.val ELSE ""

\* the token a call's POST is built from: its own local `token`
FormToken(c) == token[c].val

\* the caller invokes an operation
Start(c, invs) ==
    /\ pc[c] = "idle"
    /\ \E o \in invs : op' = [op EXCEPT ![c] = o]
    /\ pc' = [pc EXCEPT ![c] = "get_send"]
    /\ UNCHANGED <<fnVars, getResp, postResp, doc, token, sent, result, nGet, nPost,
                   helperRet, slept, cookies>>

\* get_document: the GET is sent, with the cookies of the store
GetSend(c) ==
    /\ pc[c] = "get_send"
    /\ nGet' = [nGet EXCEPT ![c] = @ + 1]
    /\ pc' = [pc EXCEPT ![c] = "get_wait"]
    /\ UNCHANGED <<fnVars, op, getResp, postResp, doc, token, sent, result, nPost,
                   helperRet, slept, cookies>>

\* the server answers the GET; a Set-Cookie of the answer lands in the store
GetRespond(c, answers) ==
    /\ pc[c] = "get_wait"
    /\ \E r \in answers :
          /\ getResp' = [getResp EXCEPT ![c] = Some(r)]
          /\ cookies' = IF r.fail = "" /\ r.cookie # "" THEN Some(r.cookie) ELSE cookies
    /\ pc' = [pc EXCEPT ![c] = "get_recv"]
    /\ UNCHANGED <<fnVars, op, postResp, doc, token, sent, result, nGet, nPost,
                   helperRet, slept>>

\* get_document: `.send().await?.text().await?`, then the `?` of the caller
GetReceive(c) ==
    /\ pc[c] = "get_recv"
    /\ LET r == getResp[c].val
       IN  IF r.fail # ""
           THEN /\ ReturnErr(c, RequestError(r.fail))
                /\ helperRet' = [helperRet EXCEPT ![c] = @ + 1]
                /\ UNCHANGED doc
           ELSE /\ doc' = [doc EXCEPT ![c] = Some(r.body)]
                /\ pc' = [pc EXCEPT ![c] = "get_sleep"]
                /\ UNCHANGED <<result, helperRet>>
    /\ UNCHANGED <<fnVars, op, getResp, postResp, token, sent, nGet, nPost, slept, cookies>>

\* get_document: `tokio::time::sleep(200 ms).await; Ok(result)`
GetSleep(c) ==
    /\ pc[c] = "get_sleep"
    /\ slept' = [slept EXCEPT ![c] = @ + DELAY_MS]
    /\ helperRet' = [helperRet EXCEPT ![c] = @ + 1]
    /\ pc' = [pc EXCEPT ![c] = "got_doc"]
    /\ UNCHANGED <<fnVars, op, getResp, postResp, doc, token, sent, result, nGet, nPost,
                   cookies>>

\* the operation's code between get_document and its next await or return
Extract(c) ==
    /\ pc[c] = "got_doc"
    /\ LET o == op[c]
           d == doc[c].val
       IN  CASE o.name = "get_lines" ->
                  ReturnOk(c, ExtractLines(d)) /\ UNCHANGED token
             [] o.name \in {"get_all_stations", "get_stations"} ->
                  LET r == ExtractStations(d)
                  IN  /\ IF r.ok THEN ReturnOk(c, r.val) ELSE ReturnErr(c, r.err)
                      /\ UNCHANGED token
             [] o.name \in BusOps ->
                  LET p == PostParams(o, d)
                  IN  IF ~p.ok THEN ReturnErr(c, p.err) /\ UNCHANGED token
                      ELSE /\ token' = [token EXCEPT ![c] = Some(p.val.form[2][2])]
                           /\ pc' = [pc EXCEPT ![c] = "post_send"]
                           /\ UNCHANGED result
    /\ UNCHANGED <<fnVars, op, getResp, postResp, doc, sent, nGet, nPost, helperRet,
                   slept, cookies>>

\* post_json: the POST is sent with the form fields and the store's cookies
PostSend(c) ==
    /\ pc[c] = "post_send"
    /\ LET p == PostParams(op[c], doc[c].val).val
       IN  sent' = [sent EXCEPT ![c] =
                      Some([path |-> p.path,
                            form |-> << p.form[1], <<TokenField, FormToken(c)>> >>,
                            cookie |-> cookies])]
    /\ nPost' = [nPost EXCEPT ![c] = @ + 1]
    /\ pc' = [pc EXCEPT ![c] = "post_wait"]
    /\ UNCHANGED <<fnVars, op, getResp, postResp, doc, token, result, nGet, helperRet,
                   slept, cookies>>

\* the server answers the POST
PostRespond(c, answers) ==
    /\ pc[c] = "post_wait"
    /\ \E r \in answers : postResp' = [postResp EXCEPT ![c] = Some(r)]
    /\ pc' = [pc EXCEPT ![c] = "post_recv"]
    /\ UNCHANGED <<fnVars, op, getResp, doc, token, sent, result, nGet, nPost, helperRet,
                   slept, cookies>>

\* post_json: `.send().await?.json().await?`, then the `?` of the caller
PostReceive(c) ==
    /\ pc[c] = "post_recv"
    /\ LET r == postResp[c].val
           j == ResponseJson(op[c].name, r.body)
       IN  IF r.fail # ""
           THEN /\ ReturnErr(c, RequestError(r.fail))
                /\ helperRet' = [helperRet EXCEPT ![c] = @ + 1]
           ELSE IF ~j.ok
           THEN /\ ReturnErr(c, RequestError("decode"))
                /\ helperRet' = [helperRet EXCEPT ![c] = @ + 1]
           ELSE /\ pc' = [pc EXCEPT ![c] = "post_sleep"]
                /\ UNCHANGED <<result, helperRet>>
    /\ UNCHANGED <<fnVars, op, getResp, postResp, doc, token, sent, nGet, nPost, slept,
                   cookies>>

\* post_json: `tokio::time::sleep(200 ms).await; Ok(result)`
PostSleep(c) ==
    /\ pc[c] = "post_sleep"
    /\ slept' = [slept EXCEPT ![c] = @ + DELAY_MS]
    /\ helperRet' = [helperRet EXCEPT ![c] = @ + 1]
    /\ pc' = [pc EXCEPT ![c] = "convert"]
    /\ UNCHANGED <<fnVars, op, getResp, postResp, doc, token, sent, result, nGet, nPost,
                   cookies>>

\* the operation's code after post_json: the DTOs converted and returned
Convert(c) ==
    /\ pc[c] = "convert"
    /\ LET dtos == ResponseJson(op[c].name, postResp[c].val.body).val
       IN  IF op[c].name = "get_line_buses"
           THEN LET r == ConvertLineBuses(dtos, <<>>)
                IN  IF r.ok THEN ReturnOk(c, r.val) ELSE ReturnErr(c, r.err)
           ELSE ReturnOk(c, ConvertStationBuses(dtos))
    /\ UNCHANGED <<fnVars, op, getResp, postResp, doc, token, sent, nGet, nPost,
                   helperRet, slept, cookies>>

-----------------------------------------------------------------------------
(* What the server may answer *)

TokenInput(t) == [tag |-> "input", attrs |-> [name |-> TokenField, value |-> t], texts |-> <<>>]
BareTokenInput == [tag |-> "input", attrs |-> [name |-> TokenField], texts |-> <<>>]
LineAnchor == [tag |-> "a", attrs |-> [href |-> H_12], texts |-> <<<<" ", "L", "1", "2", "\n">>>>]

Sc_hgID7 == S_hgID \o <<":", " ", "7", ";">>
Sc_hgID12 == <<"{", " ">> \o S_hgID \o <<" ", ":", "\n", "1", "2", ",">>
Sc_hgIDx == S_hgID \o <<":", " ", "x">>
Sc_html == <<"<", "h", "t", "m", "l", ">">>

EmptyDoc == [elems |-> <<>>, script |-> <<>>]

RichDocs ==
    {[elems |-> es, script |-> sc] :
        es \in {<<>>, <<TokenInput("tokA")>>, <<BareTokenInput>>,
                <<BareTokenInput, TokenInput("tokA")>>,
                <<LineAnchor, TokenInput("tokB"), TokenInput("tokA")>>},
        sc \in {<<>>, Sc_hgID7, Sc_hgID12, Sc_hgIDx,
                ScriptOf(<<"S42", "S7">>) \o Sc_hgID7,
                ScriptOf(<<"SnumLat">>),
                ScriptOf(<<"S42", "SbadLat">>)}}

NarrowDocs ==
    {[elems |-> es, script |-> Sc_hgID7] :
        es \in {<<>>, <<TokenInput("tokA")>>, <<TokenInput("tokB")>>}}

RichBodies ==
    { <<"[", "L1", ",", " ", "L2", "]">>,
      <<"[", "L1", ",", "LbadLat", ",", "LbadLng", "]">>,
      <<"[", "]">>,
      <<"[", "LnoLat", "]">>,
      Sc_html,
      <<"[", "B1", ",", "B2", "]", "\n">>,
      <<"[", "Bneg", "]">> }

NarrowBodies == {<<"[", "]">>}

\* the session cookie the server sets with a page: the one paired with the
\* page's anti-forgery token
CookieOf(d) == IF ExtractToken(d).some THEN ExtractToken(d).val ELSE ""

GetAnswers(fails, statuses, docs) ==
    {[fail |-> f, status |-> 0, body |-> EmptyDoc, cookie |-> ""] : f \in fails}
    \cup {[fail |-> "", status |-> st, body |-> d, cookie |-> CookieOf(d)] :
            st \in statuses, d \in docs}

PostAnswers(fails, statuses, bodies) ==
    {[fail |-> f, status |-> 0, body |-> <<>>] : f \in fails}
    \cup {[fail |-> "", status |-> st, body |-> b] : st \in statuses, b \in bodies}

RichGetAnswers == GetAnswers({"connect", "body"}, {200, 404}, RichDocs)
RichPostAnswers == PostAnswers({"connect", "body"}, {200, 500}, RichBodies)
NarrowGetAnswers == GetAnswers({"connect"}, {200}, NarrowDocs)
NarrowPostAnswers == PostAnswers({"connect"}, {200}, NarrowBodies)

IdleFn == arg = [fn |-> "none"] /\ ret = NotCalled

-----------------------------------------------------------------------------
(* SpecCall: one call of any public operation against every answer of the   *)
(* server                                                                    *)

InitCall == IdleFn /\ ProtoInit

NextCall ==
    \/ Start(1, Invocations(OpNames))
    \/ GetSend(1)
    \/ GetRespond(1, RichGetAnswers)
    \/ GetReceive(1)
    \/ GetSleep(1)
    \/ Extract(1)
    \/ PostSend(1)
    \/ PostRespond(1, RichPostAnswers)
    \/ PostReceive(1)
    \/ PostSleep(1)
    \/ Convert(1)

SpecCall == InitCall /\ [][NextCall]_vars

-----------------------------------------------------------------------------
(* Spec: the calls of Calls run concurrently on one Client.  They are      *)
(* calls of the two operations that post a token; the server answers with  *)
(* a page that carries one of two tokens or none, or fails.                 *)

Init == IdleFn /\ ProtoInit

Next ==
    \E c \in Calls :
        \/ Start(c, Invocations(BusOps))
        \/ GetSend(c)
        \/ GetRespond(c, NarrowGetAnswers)
        \/ GetReceive(c)
        \/ GetSleep(c)
        \/ Extract(c)
        \/ PostSend(c)
        \/ PostRespond(c, NarrowPostAnswers)
        \/ PostReceive(c)
        \/ PostSleep(c)
        \/ Convert(c)

Spec == Init /\ [][Next]_vars

-----------------------------------------------------------------------------
(* Claims checked under SpecCall *)

\* the document has no first token input, or that input has no value
LacksToken(d) ==
    LET idx == {i \in 1..Len(d.elems) : IsTokenInput(d.elems[i])}
    IN  \/ idx = {}
        \/ "value" \notin DOMAIN d.elems[CHOOSE i \in idx : \A j \in idx : i <= j].attrs

\* the text holds no `hgID : <digit>` (white space allowed around the colon)
LacksLineId(text) ==
    ~ \E i \in 1..Len(text), j \in 1..Len(text), k \in 1..Len(text) :
        /\ LitAt(text, i, S_hgID)
        /\ i + 4 <= j /\ j < k
        /\ text[j] = ":" /\ text[k] \in Digit
        /\ \A w \in ((i + 4)..(j - 1)) \cup ((j + 1)..(k - 1)) : text[w] \in WS

MissingToken(c) == op[c].name \in BusOps /\ doc[c].some /\ LacksToken(doc[c].val)
MissingLineId(c) ==
    op[c].name = "get_line_buses" /\ doc[c].some /\ LacksLineId(doc[c].val.script)

\* C1: when the document fetched by get_line_buses or get_station_buses lacks
\* the anti-forgery token, or the one fetched by get_line_buses lacks the hgID
\* line identifier, the call never issues a POST and ends in the failure that
\* names the missing element: NoToken when the token is missing, NoLineId when
\* only the line identifier is.
C1_MissingElementFailsBeforePost ==
    \A c \in Calls :
        (MissingToken(c) \/ MissingLineId(c)) =>
            /\ nPost[c] = 0 /\ ~sent[c].some
            /\ pc[c] \in {"get_sleep", "got_doc", "done"}
            /\ pc[c] = "done" =>
                  result[c].val = Err([kind |-> IF MissingToken(c) THEN "NoToken"
                                                ELSE "NoLineId"])

\* a get_line_buses call whose page had the token but no hgID ended in
\* NoLineId without a POST
C1_Witness ==
    \E c \in Calls :
        /\ MissingLineId(c) /\ ~MissingToken(c) /\ pc[c] = "done"
        /\ result[c].val = Err([kind |-> "NoLineId"]) /\ nPost[c] = 0

\* C2 (as claimed): every call of get_document and of post_json that has
\* returned, with Ok or with a request error, has slept its 200 ms.
C2_DelayAfterEveryHelperCall ==
    \A c \in Calls : slept[c] = DELAY_MS * helperRet[c]

\* C3 (as claimed): once get_document has returned for a GET that the server
\* answered with a non-success status, the operation has failed with the
\* Request kind.
C3_NonSuccessStatusIsRequestError ==
    \A c \in Calls :
        ( /\ getResp[c].some /\ getResp[c].val.fail = ""
          /\ getResp[c].val.status \notin 200..299
          /\ pc[c] # "get_recv" ) =>
            /\ pc[c] = "done"
            /\ ~result[c].val.ok /\ result[c].val.err.kind = "Request"

\* the call ran into a JSON text that does not decode: the stations block of
\* its document, or the body of the answer to its POST
StationsDecodeFailed(c) ==
    /\ op[c].name \in {"get_all_stations", "get_stations"} /\ doc[c].some
    /\ ExtractStationJson(doc[c].val.script).some
    /\ ~DecodeVec(ExtractStationJson(doc[c].val.script).val, "StationDto").ok
PostDecodeFailed(c) ==
    /\ postResp[c].some /\ postResp[c].val.fail = ""
    /\ ~ResponseJson(op[c].name, postResp[c].val.body).ok

\* C4 (as claimed): a call that ended on a JSON-decode failure, of the
\* stations block or of a POST's response body, returned an error whose kind
\* is not the kind of a transport failure (Request).
C4_DecodeFailureIsNotRequestKind ==
    \A c \in Calls :
        (pc[c] = "done" /\ (StationsDecodeFailed(c) \/ PostDecodeFailed(c))) =>
            /\ ~result[c].val.ok /\ result[c].val.err.kind # "Request"

\* C10: a call of a public operation issues at most one GET and at most one
\* POST; the POST only after its GET was answered and get_document returned
\* the document; only the two bus operations post; and once the call has
\* failed it can issue no further request.
C10_OneFetchThenOnePost ==
    \A c \in Calls :
        /\ nGet[c] <= 1 /\ nPost[c] <= 1
        /\ nPost[c] = 1 =>
              /\ nGet[c] = 1 /\ getResp[c].some /\ getResp[c].val.fail = ""
              /\ doc[c].some /\ helperRet[c] >= 1
              /\ op[c].name \in BusOps
        /\ (result[c].called /\ ~result[c].val.ok) =>
              ~ENABLED (GetSend(c) \/ PostSend(c))

\* a call failed at its POST, after one GET and one POST
C10_Witness ==
    \E c \in Calls :
        /\ pc[c] = "done" /\ ~result[c].val.ok
        /\ postResp[c].some /\ nGet[c] = 1 /\ nPost[c] = 1

-----------------------------------------------------------------------------
(* Claims checked under Spec *)

\* C6: the anti-forgery token in the form of a call's POST is the token of
\* the document that the same call fetched, whatever the other calls on the
\* Client fetched or stored meanwhile.
C6_PostCarriesOwnToken ==
    \A c \in Calls :
        sent[c].some =>
            /\ getResp[c].some
            /\ ExtractToken(getResp[c].val.body).some
            /\ sent[c].val.form[2] = <<TokenField, ExtractToken(getResp[c].val.body).val>>

\* two calls posted different tokens, one of them while the shared store held
\* the cookie of the other call's page
C6_Witness ==
    \E c \in Calls, d \in Calls :
        /\ c # d /\ sent[c].some /\ sent[d].some
        /\ sent[c].val.form[2] # sent[d].val.form[2]
        /\ sent[c].val.cookie = Some(sent[d].val.form[2][2])

=============================================================================
